---- MODULE Spec2Model ----
(***************************************************************************)
(* Model of the indicator pipeline of ce-dascen-analysis:                  *)
(*   module1_step_indicators.py         get_variable_value,                *)
(*                                      evaluate_formula_for_row,          *)
(*                                      calculate_indicators               *)
(*   module2_experiment_aggregation.py  aggregate_to_experiment_level,     *)
(*                                      apply_threshold_filters,           *)
(*                                      normalize_indicators               *)
(*   module3_ranking.py                 apply_weights,                     *)
(*                                      calculate_total_score,             *)
(*                                      rank_experiments                   *)
(*                                                                         *)
(* The experiment table df_experiments is modelled column by column.  A    *)
(* column is a function from the row numbers to values; a column that is   *)
(* not in the table is the empty function << >>.  Aggregated values and    *)
(* thresholds are integers in one common unit; normalized values, weighted *)
(* values, scores and formula results are integers counting hundredths     *)
(* (the code rounds them to 2 decimals), so 100 stands for 1.0; weights    *)
(* count tenths.  Each specification starts one part of the pipeline from  *)
(* the inputs that part can be given.                                      *)
(***************************************************************************)
EXTENDS Integers, Sequences, FiniteSets, TLC

\* ---------------------------------------------------------------- bounds
NumExp == 3
MaxVal == 2
MaxScore == 2

\* ------------------------------------------------------ program constants
IndIds == {"IND01", "IND02"}
Directions == {"minimize", "maximize", "other"}
\* pd.NA in the nullable rank columns; real ranks start at 1
NA == 0
\* 1.0 in hundredths
ONE == 100

VARIABLES
    stage,                \* position in run_module2 / run_module3
    rows,                 \* len(df_experiments)
    indicators,           \* indicators_config['indicators'], keyed by indicator_id
    value,                \* aggregated columns {indicator_id}
    in_threshold,         \* columns {indicator_id}_in_threshold
    threshold_violations, \* column threshold_violations
    is_feasible,          \* column is_feasible
    normalized,           \* columns {indicator_id}_normalized
    weighted,             \* columns {indicator_id}_weighted
    economic_score,       \* column economic_score
    environmental_score,  \* column environmental_score
    total_weighted_score, \* column total_weighted_score
    rank_all,             \* column rank_all
    rank,                 \* column rank
    doe,                  \* data['doe']: the experiment ids of the design table
    df_process,           \* data['df_process']: rows of the process table
    df_product,           \* data['df_product']: rows of the product table
    exp_id,               \* column exp_id of df_experiments
    row,                  \* the entity row handed to evaluate_formula_for_row
    formula,              \* the formula of the indicator or value
    variables,            \* its variable specs, keyed by variable name
    attributes,           \* data['attributes']: the attribute tables
    attr_structure,       \* the structure key of each attribute table
    var_values,           \* the scope evaluate_formula_for_row built
    result,               \* what evaluate_formula_for_row returned
    values,               \* data['values']: the value and special value lists
    computed              \* the columns calculate_indicators wrote, in order

vars == <<stage, rows, indicators, value, in_threshold, threshold_violations,
          is_feasible, normalized, weighted, economic_score,
          environmental_score, total_weighted_score, rank_all, rank,
          doe, df_process, df_product, exp_id, row, formula, variables,
          attributes, attr_structure, var_values, result, values, computed>>

\* the tables of module 1 that aggregate_to_experiment_level reads
aggVars == <<doe, df_process, df_product>>

\* the arguments and the result of evaluate_formula_for_row
formulaVars == <<row, formula, variables, attributes, attr_structure,
                 var_values, result>>

\* the value configuration and the write log of calculate_indicators
calcVars == <<values, computed>>

\* the columns that module 3 adds before ranking
scoreVars == <<weighted, economic_score, environmental_score>>

Exps == 1..rows

NoColumn == << >>

\* ---------------------------------------------------------------- helpers
SetMin(S) == CHOOSE x \in S : \A y \in S : x <= y

SetMax(S) == CHOOSE x \in S : \A y \in S : x >= y

ColMin(col) == SetMin({col[e] : e \in DOMAIN col})

ColMax(col) == SetMax({col[e] : e \in DOMAIN col})

MinOf(a, b) == IF a <= b THEN a ELSE b

MaxOf(a, b) == IF a >= b THEN a ELSE b

Abs(x) == IF x < 0 THEN -x ELSE x

\* Series.round(2) of the quotient num / den, in hundredths: numpy rounds
\* to the nearest hundredth and a tie goes to the even one.
Round2(num, den) ==
    LET n == IF den > 0 THEN 100 * num ELSE -(100 * num)
        d == Abs(den)
        q == n \div d
        r == n % d
    IN  IF 2 * r < d THEN q
        ELSE IF 2 * r > d THEN q + 1
        ELSE IF q % 2 = 0 THEN q ELSE q + 1

\* ------------------------------------------------- apply_threshold_filters
\* The loop body reaches the comparison only when the indicator has its
\* threshold key (else KeyError, skipped) and its column is in the table.
ThresholdChecked(ind) ==
    /\ indicators[ind].has_threshold
    /\ ind \in DOMAIN value

InThresholdStrict(v, direction, threshold) ==
    IF direction = "minimize" THEN v < threshold
    ELSE IF direction = "maximize" THEN v > threshold
    ELSE v < threshold

InThreshold(v, direction, threshold) ==
    IF direction = "minimize" THEN v <= threshold
    ELSE IF direction = "maximize" THEN v >= threshold
    ELSE v <= threshold

CountPasses(flags, e) ==
    Cardinality({i \in DOMAIN flags : flags[i][e]})

CountViolations(flags, e) ==
    Cardinality({i \in DOMAIN flags : ~flags[i][e]})

Feasible(violations) == violations = 0

\* no threshold check was applied: every experiment is marked feasible
UncheckedFeasibleFalse(e) == FALSE

UncheckedFeasible(e) == TRUE

ApplyThresholdFilters ==
    /\ stage = "aggregated"
    /\ stage' = "thresholded"
    /\ IF rows = 0
       THEN UNCHANGED <<in_threshold, threshold_violations, is_feasible>>
       ELSE LET threshold_cols == {i \in IndIds : ThresholdChecked(i)}
                flags == [i \in threshold_cols |->
                            [e \in Exps |-> InThreshold(value[i][e],
                                                        indicators[i].direction,
                                                        indicators[i].threshold)]]
            IN  /\ in_threshold' = flags
                /\ IF threshold_cols # {}
                   THEN /\ threshold_violations' =
                              [e \in Exps |-> CountViolations(flags, e)]
                        /\ is_feasible' =
                              [e \in Exps |-> Feasible(CountViolations(flags, e))]
                   ELSE /\ threshold_violations' = [e \in Exps |-> 0]
                        /\ is_feasible' = [e \in Exps |-> UncheckedFeasible(e)]
    /\ UNCHANGED <<calcVars, rows, indicators, value, normalized, total_weighted_score,
                   rank_all, rank, scoreVars,
                   aggVars, exp_id, formulaVars>>

\* ----------------------------------------------------- normalize_indicators
\* An indicator without its threshold key raises KeyError and is skipped, one
\* whose column is not in the table is skipped with a warning.
NormalizeChecked(ind) ==
    /\ indicators[ind].has_threshold
    /\ ind \in DOMAIN value

BestValueIgnoringDirection(col, direction) == ColMin(col)

BestValue(col, direction) ==
    IF direction = "maximize" THEN ColMax(col) ELSE ColMin(col)

WorstValueRaw(col, direction) ==
    IF direction = "maximize" THEN ColMin(col) ELSE ColMax(col)

WorstValue(col, direction, threshold) ==
    IF direction = "minimize"
    THEN MinOf(WorstValueRaw(col, direction), threshold)
    ELSE MaxOf(WorstValueRaw(col, direction), threshold)

\* abs(best_value - worst_value) < 1e-10; on integers the difference is 0
Degenerate(best, worst) == Abs(best - worst) < 1

NormalizeValueFlipped(v, best, worst, direction) ==
    IF direction = "minimize" THEN Round2(worst - v, best - worst)
    ELSE IF direction = "maximize" THEN Round2(v - worst, worst - best)
    ELSE Round2(worst - v, best - worst)

NormalizeValue(v, best, worst, direction) ==
    IF direction = "minimize" THEN Round2(worst - v, worst - best)
    ELSE IF direction = "maximize" THEN Round2(v - worst, best - worst)
    ELSE Round2(worst - v, worst - best)

NormalizeColumnDegenerateZero(col, direction, threshold) ==
    LET best == BestValue(col, direction)
        worst == WorstValue(col, direction, threshold)
    IN  IF Degenerate(best, worst)
        THEN [e \in DOMAIN col |-> 0]
        ELSE [e \in DOMAIN col |-> NormalizeValue(col[e], best, worst, direction)]

NormalizeColumn(col, direction, threshold) ==
    LET best == BestValue(col, direction)
        worst == WorstValue(col, direction, threshold)
    IN  IF Degenerate(best, worst)
        THEN [e \in DOMAIN col |-> ONE]
        ELSE [e \in DOMAIN col |-> NormalizeValue(col[e], best, worst, direction)]

NormalizeIndicators ==
    /\ stage = "thresholded"
    /\ stage' = "normalized"
    /\ IF rows = 0
       THEN UNCHANGED normalized
       ELSE normalized' =
              [i \in {j \in IndIds : NormalizeChecked(j)} |->
                  NormalizeColumn(value[i], indicators[i].direction,
                                  indicators[i].threshold)]
    /\ UNCHANGED <<calcVars, rows, indicators, value, in_threshold, threshold_violations,
                   is_feasible, total_weighted_score, rank_all, rank, scoreVars,
                   aggVars, exp_id, formulaVars>>

\* --------------------------------------------------------------- module 2
IndicatorConfigs ==
    [direction : Directions, threshold : 0..MaxVal, has_threshold : {TRUE}]
    \cup [direction : Directions, threshold : {0}, has_threshold : {FALSE}]

Init ==
    /\ stage = "aggregated"
    /\ rows \in 0..NumExp
    /\ indicators \in [IndIds -> IndicatorConfigs]
    /\ \E cols \in SUBSET IndIds :
          value \in [cols -> [Exps -> 0..MaxVal]]
    /\ (rows = 0 => value = NoColumn)
    /\ in_threshold = NoColumn
    /\ threshold_violations = NoColumn
    /\ is_feasible = NoColumn
    /\ normalized = NoColumn
    /\ weighted = NoColumn
    /\ economic_score = NoColumn
    /\ environmental_score = NoColumn
    /\ total_weighted_score = NoColumn
    /\ rank_all = NoColumn
    /\ rank = NoColumn
    /\ values = NoColumn
    /\ computed = NoColumn
    /\ doe = NoColumn
    /\ df_process = NoColumn
    /\ df_product = NoColumn
    /\ exp_id = NoColumn
    /\ row = NoColumn
    /\ formula = NoColumn
    /\ variables = NoColumn
    /\ attributes = NoColumn
    /\ attr_structure = NoColumn
    /\ var_values = NoColumn
    /\ result = NoColumn

Next ==
    \/ ApplyThresholdFilters
    \/ NormalizeIndicators

Spec == Init /\ [][Next]_vars

\* --------------------------------------------------------- rank_experiments
Perms(S) ==
    {p \in [1..Cardinality(S) -> S] : \A i, j \in DOMAIN p : i # j => p[i] # p[j]}

\* the rows of S ordered by descending score
SortedDesc(S, score) ==
    CHOOSE p \in Perms(S) :
        \A i, j \in DOMAIN p : i < j => score[p[i]] >= score[p[j]]

\* method='dense': the position among the distinct scores
RankDense(S, score) ==
    [e \in S |-> Cardinality({score[x] : x \in {y \in S : score[y] >= score[e]}})]

\* Series.rank(ascending=False, method='min') over the rows S: a row gets the
\* lowest position that its score occupies in the descending order.
RankMin(S, score) ==
    LET p == SortedDesc(S, score)
    IN  [e \in S |-> SetMin({i \in DOMAIN p : score[p[i]] = score[e]})]

\* the mask forgotten: every row is ranked
RankFeasibleUnmasked(mask, score) == RankMin(DOMAIN mask, score)

\* the masked rows take their position among all rows
RankFeasibleAmongAll(mask, score) ==
    LET r == RankMin(DOMAIN mask, score)
    IN  [e \in DOMAIN mask |-> IF mask[e] THEN r[e] ELSE NA]

\* the masked rows ranked from the lowest score upwards
RankFeasibleAscending(mask, score) ==
    [e \in DOMAIN mask |->
        IF mask[e]
        THEN 1 + Cardinality({x \in DOMAIN mask : mask[x] /\ score[x] < score[e]})
        ELSE NA]

\* .loc[feasible_mask, 'rank'] = rank of the masked rows; the others stay NA
RankFeasible(mask, score) ==
    LET F == {e \in DOMAIN mask : mask[e]}
    IN  IF F # {}
        THEN LET r == RankMin(F, score)
             IN  [e \in DOMAIN mask |-> IF e \in F THEN r[e] ELSE NA]
        ELSE [e \in DOMAIN mask |-> NA]

RankExperiments ==
    /\ stage = "scored"
    /\ stage' = "ranked"
    /\ IF rows = 0
       THEN UNCHANGED <<is_feasible, rank_all, rank>>
       ELSE IF total_weighted_score = NoColumn
       THEN /\ rank_all' = [e \in Exps |-> NA]
            /\ rank' = [e \in Exps |-> NA]
            /\ UNCHANGED is_feasible
       ELSE LET mask == IF is_feasible = NoColumn
                        THEN [e \in Exps |-> TRUE]
                        ELSE is_feasible
            IN  /\ is_feasible' = mask
                /\ rank_all' = RankMin(Exps, total_weighted_score)
                /\ rank' = RankFeasible(mask, total_weighted_score)
    /\ UNCHANGED <<calcVars, rows, indicators, value, in_threshold, threshold_violations,
                   normalized, total_weighted_score, scoreVars,
                   aggVars, exp_id, formulaVars>>

\* --------------------------------------------------------------- module 3
InitRank ==
    /\ stage = "scored"
    /\ rows \in 0..NumExp
    /\ indicators = NoColumn
    /\ value = NoColumn
    /\ in_threshold = NoColumn
    /\ threshold_violations = NoColumn
    /\ normalized = NoColumn
    /\ weighted = NoColumn
    /\ economic_score = NoColumn
    /\ environmental_score = NoColumn
    /\ total_weighted_score \in [Exps -> 0..MaxScore] \cup {NoColumn}
    /\ is_feasible \in [Exps -> BOOLEAN] \cup {NoColumn}
    /\ rank_all = NoColumn
    /\ rank = NoColumn
    /\ values = NoColumn
    /\ computed = NoColumn
    /\ doe = NoColumn
    /\ df_process = NoColumn
    /\ df_product = NoColumn
    /\ exp_id = NoColumn
    /\ row = NoColumn
    /\ formula = NoColumn
    /\ variables = NoColumn
    /\ attributes = NoColumn
    /\ attr_structure = NoColumn
    /\ var_values = NoColumn
    /\ result = NoColumn

NextRank ==
    \/ RankExperiments

SpecRank == InitRank /\ [][NextRank]_vars

\* ------------------------------------------------------------ apply_weights
\* Weights are counted in tenths (3 stands for 0.3), normalized and weighted
\* values in hundredths.  Values that are not finite are kept apart from
\* the numbers by three codes outside the range of the numbers.
NaN == 1000000

PosInf == 2000000

NegInf == -2000000

IsFinite(x) == x \notin {NaN, PosInf, NegInf}

\* the weights of the configuration, in tenths
Weights == {2, 3, 5}

\* the normalized values a table may hold, in hundredths
NormVals == {-50, 71, 100, NaN, PosInf}

Categories == {"economic", "environmental", "other"}

\* score_precision: the decimals of weighted values and scores
score_precision == 2

\* normalized * weight in floating point: thousandths, or a non-finite code
Times(n, w) ==
    IF n = NaN THEN NaN
    ELSE IF n \in {PosInf, NegInf}
    THEN (IF w = 0 THEN NaN ELSE IF w > 0 THEN n ELSE (IF n = PosInf THEN NegInf ELSE PosInf))
    ELSE n * w

\* Series.round(score_precision) of a count of thousandths, in hundredths
RoundScore(x) == IF IsFinite(x) THEN Round2(x, 1000) ELSE x

\* replace([inf, -inf], 0) and fillna(0)
Sanitize(x) == IF IsFinite(x) THEN x ELSE 0

WeightedValueUnsanitized(n, w) == RoundScore(Times(n, w))

WeightedValue(n, w) == Sanitize(RoundScore(Times(n, w)))

\* the indicator is weighted when its normalized column is in the table
WeightApplied(ind) == ind \in DOMAIN normalized

\* a skipped indicator defaulted to a column of zeros
WeightedColumnsDefaultZero(norm) ==
    [i \in IndIds |->
        [e \in Exps |-> IF i \in DOMAIN norm
                        THEN WeightedValue(norm[i][e], indicators[i].weight)
                        ELSE 0]]

\* the loop over the indicators: one weighted column per weighted indicator
WeightedColumns(norm) ==
    [i \in {j \in IndIds : WeightApplied(j)} |->
        [e \in Exps |-> WeightedValue(norm[i][e], indicators[i].weight)]]

ApplyWeights ==
    /\ stage = "normalized"
    /\ stage' = "weighted"
    /\ IF rows = 0
       THEN UNCHANGED weighted
       ELSE weighted' = WeightedColumns(normalized)
    /\ UNCHANGED <<calcVars, rows, indicators, value, in_threshold, threshold_violations,
                   is_feasible, normalized, economic_score, environmental_score,
                   total_weighted_score, rank_all, rank,
                   aggVars, exp_id, formulaVars>>

\* ---------------------------------------------------- calculate_total_score
RECURSIVE SumCols(_, _, _)
\* df[cols].sum(axis=1) on row e
SumCols(cols, table, e) ==
    IF cols = {} THEN 0
    ELSE LET c == CHOOSE x \in cols : TRUE
         IN  table[c][e] + SumCols(cols \ {c}, table, e)

\* the weighted columns of the indicators of one category that exist
CategoryCols(table, category) ==
    {i \in IndIds : indicators[i].category = category /\ i \in DOMAIN table}

\* sum of the category's weighted columns, rounded; 0 when there is none
CategoryScore(table, category, e) ==
    LET cols == CategoryCols(table, category)
    IN  IF cols # {} THEN Round2(SumCols(cols, table, e), 100) ELSE 0

\* the total taken from the two category scores
TotalScoreFromCategories(table, e) ==
    CategoryScore(table, "economic", e) + CategoryScore(table, "environmental", e)

\* sum of all weighted columns that exist, rounded; 0 when there is none
TotalScore(table, e) ==
    LET cols == {i \in IndIds : i \in DOMAIN table}
    IN  IF cols # {} THEN Sanitize(Round2(SumCols(cols, table, e), 100)) ELSE 0

CalculateTotalScore ==
    /\ stage = "weighted"
    /\ stage' = "scored"
    /\ IF rows = 0
       THEN UNCHANGED <<economic_score, environmental_score, total_weighted_score>>
       ELSE /\ economic_score' =
                  [e \in Exps |-> CategoryScore(weighted, "economic", e)]
            /\ environmental_score' =
                  [e \in Exps |-> CategoryScore(weighted, "environmental", e)]
            /\ total_weighted_score' = [e \in Exps |-> TotalScore(weighted, e)]
    /\ UNCHANGED <<calcVars, rows, indicators, value, in_threshold, threshold_violations,
                   is_feasible, normalized, weighted, rank_all, rank,
                   aggVars, exp_id, formulaVars>>

\* ------------------------------------------- module 3, weighting and scores
NumScored == 2

WeightConfigs == [weight : Weights, category : Categories]

InitScore ==
    /\ stage = "normalized"
    /\ rows \in 0..NumScored
    /\ indicators \in [IndIds -> WeightConfigs]
    /\ \E cols \in SUBSET IndIds :
          normalized \in [cols -> [Exps -> NormVals]]
    /\ (rows = 0 => normalized = NoColumn)
    /\ value = NoColumn
    /\ in_threshold = NoColumn
    /\ threshold_violations = NoColumn
    /\ is_feasible = NoColumn
    /\ weighted = NoColumn
    /\ economic_score = NoColumn
    /\ environmental_score = NoColumn
    /\ total_weighted_score = NoColumn
    /\ rank_all = NoColumn
    /\ rank = NoColumn
    /\ values = NoColumn
    /\ computed = NoColumn
    /\ doe = NoColumn
    /\ df_process = NoColumn
    /\ df_product = NoColumn
    /\ exp_id = NoColumn
    /\ row = NoColumn
    /\ formula = NoColumn
    /\ variables = NoColumn
    /\ attributes = NoColumn
    /\ attr_structure = NoColumn
    /\ var_values = NoColumn
    /\ result = NoColumn

NextScore ==
    \/ ApplyWeights
    \/ CalculateTotalScore

SpecScore == InitScore /\ [][NextScore]_vars

\* ------------------------------------------- aggregate_to_experiment_level
\* Entity tables are sequences of rows [exp_id, v]; cols names the indicator
\* columns a table has, and every indicator column of a row holds v.  Cell
\* values count hundredths and are never 0, so that a filled-in 0 shows.
AggExps == 2
MaxRows == 2

Cells == {1, 2}

AggIds == 1..AggExps

\* the order of indicators_config['indicators']
IndOrder == <<"IND01", "IND02">>

SeqsUpTo(S, n) == UNION {[1..k -> S] : k \in 0..n}

RECURSIVE SeqSum(_)
SeqSum(q) == IF q = << >> THEN 0 ELSE Head(q) + SeqSum(Tail(q))

\* the tables of data that an indicator can name as its target
Data ==
    IF df_product.present
    THEN [n \in {"df_process", "df_product"} |->
             IF n = "df_process" THEN df_process ELSE df_product]
    ELSE [n \in {"df_process"} |-> df_process]

\* target_df[target_df[exp_id] == e][ind_id], in table order
GroupValues(table, e) ==
    LET g == SelectSeq(table.rows, LAMBDA r : r.exp_id = e)
    IN  [k \in 1..Len(g) |-> g[k].v]

\* every method reduced to the sum
ReduceAlwaysSum(g, agg_method) == <<SeqSum(g)>>

\* groupby(exp_id)[ind_id].sum() / .mean() / set_index(exp_id)[ind_id] for
\* one experiment that has rows; the mean is shown as the final round(2)
\* leaves it, which no step between changes
Reduce(g, agg_method) ==
    IF agg_method = "sum" THEN <<SeqSum(g)>>
    ELSE IF agg_method \in {"average", "mean"}
         THEN <<Round2(SeqSum(g), 100 * Len(g))>>
    ELSE g

\* an inner merge: the experiment without data loses its row
FillMissingDropsRow(m) == m

\* how='left' and fillna(0): an experiment without data keeps one row, 0
FillMissing(m) == IF m = << >> THEN <<0>> ELSE m

\* df_experiments.merge(aggregated, how='left'): for the rows k.. of the left
\* table, the pairs (left row, merged value) in the order of the result
RECURSIVE MergeRows(_, _, _, _)
MergeRows(ids, table, agg_method, k) ==
    IF k > Len(ids) THEN << >>
    ELSE LET g == GroupValues(table, ids[k])
             m == FillMissing(IF g = << >> THEN << >>
                              ELSE Reduce(g, agg_method))
         IN  [j \in 1..Len(m) |-> [src |-> k, v |-> m[j]]]
             \o MergeRows(ids, table, agg_method, k + 1)

RequiredAggKeys == {"indicator_id", "target_dataframe", "aggregation"}

IdOrUnknown(ind) ==
    IF "indicator_id" \in DOMAIN ind THEN ind.indicator_id ELSE "unknown"

\* one pass of the loop body over t = [exp_id, value, missing]
AggregateOne(t, ind) ==
    IF ~(RequiredAggKeys \subseteq DOMAIN ind)
    THEN [t EXCEPT !.missing = @ \cup {IdOrUnknown(ind)}]
    ELSE IF ind.target_dataframe \notin DOMAIN Data
    THEN [t EXCEPT !.missing = @ \cup {ind.indicator_id}]
    ELSE IF ind.indicator_id \notin Data[ind.target_dataframe].cols
    THEN [t EXCEPT !.missing = @ \cup {ind.indicator_id}]
    ELSE LET m == MergeRows(t.exp_id, Data[ind.target_dataframe],
                            ind.aggregation, 1)
             old == DOMAIN t.value
         IN  [exp_id |-> [j \in 1..Len(m) |-> t.exp_id[m[j].src]],
              value |-> [i \in old \cup {ind.indicator_id} |->
                           [j \in 1..Len(m) |->
                              IF i = ind.indicator_id THEN m[j].v
                              ELSE t.value[i][m[j].src]]],
              missing |-> t.missing]

RECURSIVE AggregateFrom(_, _)
AggregateFrom(t, k) ==
    IF k > Len(IndOrder) THEN t
    ELSE AggregateFrom(AggregateOne(t, indicators[IndOrder[k]]), k + 1)

\* data['df_process'][exp_id].unique()
available_exp_ids ==
    {df_process.rows[k].exp_id : k \in 1..Len(df_process.rows)}

\* the design table restricted to the available experiments, in its order
RECURSIVE KeptFrom(_, _)
KeptFrom(avail, e) ==
    IF e > AggExps THEN << >>
    ELSE (IF e \in doe /\ e \in avail THEN <<e>> ELSE << >>)
         \o KeptFrom(avail, e + 1)

\* the list comprehension after the loop reads ind['indicator_id'] of every
\* entry, outside any try
RoundingRaises == \E i \in IndIds : "indicator_id" \notin DOMAIN indicators[i]

AggregateToExperimentLevel ==
    /\ stage = "loaded"
    /\ UNCHANGED <<calcVars, indicators, in_threshold, threshold_violations,
                   is_feasible, normalized, total_weighted_score, rank_all,
                   rank, scoreVars, aggVars, formulaVars>>
    /\ IF doe = {} \/ df_process.rows = << >>
       THEN /\ stage' = "raised"
            /\ UNCHANGED <<rows, exp_id, value>>
       ELSE LET kept == KeptFrom(available_exp_ids, 1)
                t == AggregateFrom([exp_id |-> kept, value |-> << >>,
                                    missing |-> {}], 1)
            IN  IF kept = << >>
                THEN /\ stage' = "aggregated"
                     /\ rows' = 0
                     /\ exp_id' = << >>
                     /\ value' = << >>
                ELSE IF RoundingRaises
                THEN /\ stage' = "raised"
                     /\ UNCHANGED <<rows, exp_id, value>>
                ELSE /\ stage' = "aggregated"
                     /\ rows' = Len(t.exp_id)
                     /\ exp_id' = t.exp_id
                     /\ value' = t.value

EntityRows == [exp_id : AggIds, v : Cells]

\* a product table with at most one row per experiment, in experiment order
RECURSIVE RowsFrom(_, _)
RowsFrom(f, e) ==
    IF e > AggExps THEN << >>
    ELSE (IF f[e] = 0 THEN << >> ELSE <<[exp_id |-> e, v |-> f[e]]>>)
         \o RowsFrom(f, e + 1)

FirstConfigs ==
    [indicator_id : {"IND01"}, target_dataframe : {"df_process", "df_system"},
     aggregation : {"sum", "average", "none"}]
    \cup {[target_dataframe |-> "df_process", aggregation |-> "sum"],
          [indicator_id |-> "IND01", aggregation |-> "sum"],
          [indicator_id |-> "IND01", target_dataframe |-> "df_process"]}

SecondConfigs ==
    [indicator_id : {"IND02"}, target_dataframe : {"df_product"},
     aggregation : {"none", "mean"}]

InitAgg ==
    /\ stage = "loaded"
    /\ rows = 0
    /\ doe \in SUBSET AggIds
    /\ df_process \in [cols : SUBSET {"IND01"},
                       rows : SeqsUpTo(EntityRows, MaxRows)]
    /\ df_product \in
          {[present |-> FALSE, cols |-> {}, rows |-> << >>]}
          \cup {[present |-> TRUE, cols |-> c, rows |-> RowsFrom(f, 1)] :
                   c \in SUBSET {"IND02"},
                   f \in [AggIds -> Cells \cup {0}]}
    /\ indicators \in {[i \in IndIds |-> IF i = "IND01" THEN a ELSE b] :
                          a \in FirstConfigs, b \in SecondConfigs}
    /\ exp_id = << >>
    /\ value = NoColumn
    /\ in_threshold = NoColumn
    /\ threshold_violations = NoColumn
    /\ is_feasible = NoColumn
    /\ normalized = NoColumn
    /\ weighted = NoColumn
    /\ economic_score = NoColumn
    /\ environmental_score = NoColumn
    /\ total_weighted_score = NoColumn
    /\ rank_all = NoColumn
    /\ rank = NoColumn
    /\ values = NoColumn
    /\ computed = NoColumn
    /\ row = NoColumn
    /\ formula = NoColumn
    /\ variables = NoColumn
    /\ attributes = NoColumn
    /\ attr_structure = NoColumn
    /\ var_values = NoColumn
    /\ result = NoColumn

NextAgg == AggregateToExperimentLevel

SpecAgg == InitAgg /\ [][NextAgg]_vars

\* ------------------------------------------------------ get_variable_value
\* Python values carry their type.  A number read from a numeric Series is a
\* numpy scalar (np), a number of the JSON attribute tables, a literal or a
\* default is a plain Python number.  A dict keeps the order of its keys.
MaxOperand == 2

DEFAULT_VALUE == 0

VALUE_PRECISION == 2

\* the defaults of range_entry.get('quality_min', 0) and ('quality_max', 1),
\* with qualities counted in tenths
QualityMinDefault == 0
QualityMaxDefault == 10

PyNum(n) == [kind |-> "num", np |-> FALSE, v |-> n]

NpNum(n) == [kind |-> "num", np |-> TRUE, v |-> n]

Str(t) == [kind |-> "str", s |-> t]

None == [kind |-> "none"]

List(q) == [kind |-> "list", items |-> q]

\* a dict literal {k1: v1, k2: v2, ...} given as the pairs <<k, v>>
Dict(pairs) ==
    [kind |-> "dict",
     order |-> [j \in 1..Len(pairs) |-> pairs[j][1]],
     items |-> [k \in {pairs[j][1] : j \in 1..Len(pairs)} |->
                  pairs[CHOOSE j \in 1..Len(pairs) : pairs[j][1] = k][2]]]

Returned(x) == [raised |-> FALSE, value |-> x]

Raised(e) == [raised |-> TRUE, error |-> e]

\* d.get(k, default); d is a dict
DictGet(d, k, default) == IF k \in DOMAIN d.items THEN d.items[k] ELSE default

\* x == y of Python: numbers compare by value, whatever their type
ValEq(x, y) ==
    IF x.kind = "num" /\ y.kind = "num" THEN x.v = y.v
    ELSE x.kind = y.kind /\ x = y

\* file.replace('attributes_', '').replace('.json', '')
TableName(file) ==
    CASE file = "attributes_process.json" -> "process"
      [] file = "attributes_systems.json" -> "systems"
      [] file = "attributes_product.json" -> "product"
      [] file = "attributes_other.json" -> "other"
      [] OTHER -> file

\* data['attributes'][table][attr_structure[table]]
AttrTable(table) ==
    IF table \notin DOMAIN attr_structure THEN Raised("KeyError")
    ELSE IF table \notin DOMAIN attributes THEN Raised("KeyError")
    ELSE IF attr_structure[table] \notin DOMAIN attributes[table]
    THEN Raised("KeyError")
    ELSE Returned(attributes[table][attr_structure[table]])

\* for path_part in value_path.split('.'): value = value.get(path_part, 0),
\* then None replaced by the default
RECURSIVE WalkPath(_, _)
WalkPath(node, path) ==
    IF path = << >>
    THEN Returned(IF node.kind = "none" THEN PyNum(DEFAULT_VALUE) ELSE node)
    ELSE IF node.kind # "dict" THEN Raised("AttributeError")
    ELSE WalkPath(DictGet(node, Head(path), PyNum(DEFAULT_VALUE)),
                  Tail(path))

\* the loop over the entries of a process or systems table
RECURSIVE LookupEntries(_, _, _, _)
LookupEntries(entries, lookup_columns, value_path, r) ==
    IF entries = << >> THEN Returned(PyNum(DEFAULT_VALUE))
    ELSE LET entry == Head(entries)
         IN  IF lookup_columns # << >> /\ entry.kind # "dict"
             THEN Raised("AttributeError")
             ELSE IF \A j \in 1..Len(lookup_columns) :
                        ValEq(DictGet(entry, lookup_columns[j], None),
                              r.cells[lookup_columns[j]])
             THEN WalkPath(entry, value_path)
             ELSE LookupEntries(Tail(entries), lookup_columns, value_path, r)

\* the loop over the components of the product table, fixed attributes
RECURSIVE LookupComponents(_, _, _)
LookupComponents(components, step_name, value_path) ==
    IF components = << >> THEN Returned(PyNum(DEFAULT_VALUE))
    ELSE LET component == Head(components)
         IN  IF component.kind # "dict" THEN Raised("TypeError")
             ELSE IF "component_name" \notin DOMAIN component.items
             THEN Raised("KeyError")
             ELSE IF ValEq(component.items["component_name"], step_name)
             THEN WalkPath(component, value_path)
             ELSE LookupComponents(Tail(components), step_name, value_path)

AttributeFileValue(r, var_config) ==
    IF ~({"file", "lookup_columns", "value_path"} \subseteq DOMAIN var_config)
    THEN Raised("KeyError")
    ELSE LET table_name == TableName(var_config.file)
             lookup_columns == var_config.lookup_columns
         IN  IF \E j \in 1..Len(lookup_columns) :
                    lookup_columns[j] \notin DOMAIN r.cells
             THEN Raised("KeyError")
             ELSE IF table_name \in {"process", "systems"}
             THEN LET t == AttrTable(table_name)
                  IN  IF t.raised THEN t
                      ELSE LookupEntries(t.value, lookup_columns,
                                         var_config.value_path, r)
             ELSE IF table_name = "product"
             THEN IF lookup_columns = << >> THEN Raised("IndexError")
                  ELSE LET t == AttrTable("product")
                       IN  IF t.raised THEN t
                           ELSE LookupComponents(t.value,
                                                 r.cells[lookup_columns[1]],
                                                 var_config.value_path)
             ELSE Returned(PyNum(DEFAULT_VALUE))

\* the upper bound excluded: q_min <= quality < q_max
InRangeHalfOpen(q_min, quality, q_max) ==
    IF q_min.kind # "num" \/ quality.kind # "num" THEN "TypeError"
    ELSE IF ~(q_min.v <= quality.v) THEN "no"
    ELSE IF q_max.kind # "num" THEN "TypeError"
    ELSE IF quality.v < q_max.v THEN "yes" ELSE "no"

\* q_min <= quality <= q_max: "yes", "no", or "TypeError" when an operand
\* that is compared is no number
InRange(q_min, quality, q_max) ==
    IF q_min.kind # "num" \/ quality.kind # "num" THEN "TypeError"
    ELSE IF ~(q_min.v <= quality.v) THEN "no"
    ELSE IF q_max.kind # "num" THEN "TypeError"
    ELSE IF quality.v <= q_max.v THEN "yes" ELSE "no"

\* the loop over the quality ranges (a list) or the end-of-life options (the
\* values of a dict, in key order)
RECURSIVE LookupRanges(_, _, _)
LookupRanges(ranges, quality, value_key) ==
    IF ranges = << >> THEN Returned(PyNum(DEFAULT_VALUE))
    ELSE LET range_entry == Head(ranges)
         IN  IF range_entry.kind # "dict" THEN Raised("AttributeError")
             ELSE LET c == InRange(
                        DictGet(range_entry, "quality_min",
                                PyNum(QualityMinDefault)),
                        quality,
                        DictGet(range_entry, "quality_max",
                                PyNum(QualityMaxDefault)))
                  IN  IF c = "TypeError" THEN Raised("TypeError")
                      ELSE IF c = "yes"
                      THEN Returned(DictGet(range_entry, value_key,
                                            PyNum(DEFAULT_VALUE)))
                      ELSE LookupRanges(Tail(ranges), quality, value_key)

\* for path_part in value_path.split('.'): attr_data = attr_data.get(part, [])
RECURSIVE WalkToRanges(_, _)
WalkToRanges(attr_data, path) ==
    IF path = << >> THEN Returned(attr_data)
    ELSE IF attr_data.kind # "dict" THEN Raised("AttributeError")
    ELSE WalkToRanges(DictGet(attr_data, Head(path), List(<< >>)), Tail(path))

\* the component loop of the quality_range source
RECURSIVE RangeComponents(_, _, _, _, _)
RangeComponents(components, step_name, quality, value_path, value_key) ==
    IF components = << >> THEN Returned(PyNum(DEFAULT_VALUE))
    ELSE LET component == Head(components)
         IN  IF component.kind # "dict" THEN Raised("TypeError")
             ELSE IF "component_name" \notin DOMAIN component.items
             THEN Raised("KeyError")
             ELSE IF ValEq(component.items["component_name"], step_name)
             THEN LET a == WalkToRanges(component, value_path)
                  IN  IF a.raised THEN a
                      ELSE IF a.value.kind = "list"
                      THEN LookupRanges(a.value.items, quality, value_key)
                      ELSE Returned(PyNum(DEFAULT_VALUE))
             ELSE RangeComponents(Tail(components), step_name, quality,
                                  value_path, value_key)

\* the value path as one key, not split: a dotted path is the key of no
\* modelled dict
WholePath(value_path) ==
    IF Len(value_path) = 1 THEN value_path[1] ELSE "."

\* the component loop of the quality_threshold source
RECURSIVE ThresholdComponents(_, _, _, _, _)
ThresholdComponents(components, step_name, quality, value_path, value_key) ==
    IF components = << >> THEN Returned(PyNum(DEFAULT_VALUE))
    ELSE LET component == Head(components)
         IN  IF component.kind # "dict" THEN Raised("TypeError")
             ELSE IF "component_name" \notin DOMAIN component.items
             THEN Raised("KeyError")
             ELSE IF ValEq(component.items["component_name"], step_name)
             THEN LET eol_options ==
                          DictGet(component, WholePath(value_path),
                                  Dict(<< >>))
                  IN  IF eol_options.kind # "dict"
                      THEN Raised("AttributeError")
                      ELSE LookupRanges(
                             [j \in 1..Len(eol_options.order) |->
                                 eol_options.items[eol_options.order[j]]],
                             quality, value_key)
             ELSE ThresholdComponents(Tail(components), step_name, quality,
                                      value_path, value_key)

QualityKeys ==
    {"file", "lookup_column", "quality_column", "value_path", "value_key"}

QualityValue(r, var_config) ==
    IF ~(QualityKeys \subseteq DOMAIN var_config) THEN Raised("KeyError")
    ELSE IF var_config.lookup_column \notin DOMAIN r.cells
    THEN Raised("KeyError")
    ELSE IF var_config.quality_column \notin DOMAIN r.cells
    THEN Raised("KeyError")
    ELSE LET t == AttrTable("product")
             step_name == r.cells[var_config.lookup_column]
             quality == r.cells[var_config.quality_column]
         IN  IF t.raised THEN t
             ELSE IF var_config.source = "quality_range"
             THEN RangeComponents(t.value, step_name, quality,
                                  var_config.value_path, var_config.value_key)
             ELSE ThresholdComponents(t.value, step_name, quality,
                                      var_config.value_path,
                                      var_config.value_key)

\* a spec without its source key resolved to the default
GetVariableValueDefaulting(r, var_config) ==
    IF "source" \notin DOMAIN var_config THEN Returned(PyNum(DEFAULT_VALUE))
    ELSE IF var_config.source = "dataframe"
    THEN IF "column" \notin DOMAIN var_config THEN Raised("KeyError")
         ELSE IF var_config.column \notin DOMAIN r.cells
         THEN Raised("KeyError")
         ELSE Returned(r.cells[var_config.column])
    ELSE Raised("ValueError")

GetVariableValue(r, var_config) ==
    IF "source" \notin DOMAIN var_config THEN Raised("KeyError")
    ELSE IF var_config.source = "dataframe"
    THEN IF "column" \notin DOMAIN var_config THEN Raised("KeyError")
         ELSE IF var_config.column \notin DOMAIN r.cells
         THEN Raised("KeyError")
         ELSE Returned(r.cells[var_config.column])
    ELSE IF var_config.source = "attribute_file"
    THEN AttributeFileValue(r, var_config)
    ELSE IF var_config.source \in {"quality_range", "quality_threshold"}
    THEN QualityValue(r, var_config)
    ELSE Raised("ValueError")

\* ------------------------------------------------ evaluate_formula_for_row
\* A formula string is modelled as its tokens, at most three of them: an
\* operand, a signed operand, or operand operator operand.  The result of
\* the evaluation counts hundredths.
Names == {"a", "b", "x"}

LiteralValue == [t \in {"0", "3"} |-> IF t = "0" THEN 0 ELSE 3]

Signs == {"+", "-"}

Operators == {"+", "-", "*", "/"}

IsOperand(t) == t \in Names \cup DOMAIN LiteralValue

Ratio(np, num, den) == [kind |-> "ratio", np |-> np, num |-> num, den |-> den]

NonFinite(x) == [kind |-> "nonfinite", v |-> x]

\* a name is looked up in var_values; the globals hold no name at all
Operand(t, scope) ==
    IF t \in DOMAIN LiteralValue THEN Returned(PyNum(LiteralValue[t]))
    ELSE IF t \in DOMAIN scope THEN Returned(scope[t])
    ELSE Raised("NameError")

Signed(sign, o) ==
    IF o.raised THEN o
    ELSE IF o.value.kind # "num" THEN Raised("TypeError")
    ELSE IF sign = "-" THEN Returned([o.value EXCEPT !.v = -@])
    ELSE o

\* two Python numbers divided by zero raise; with a numpy scalar involved
\* the quotient is inf, -inf or nan and nothing is raised
Divide(l, r) ==
    IF r.v = 0
    THEN IF ~l.np /\ ~r.np THEN Raised("ZeroDivisionError")
         ELSE Returned(NonFinite(IF l.v = 0 THEN NaN
                                 ELSE IF l.v > 0 THEN PosInf ELSE NegInf))
    ELSE Returned(Ratio(l.np \/ r.np,
                        IF r.v > 0 THEN l.v ELSE -l.v, Abs(r.v)))

\* an operand that is no number ends in a TypeError, at the operator or at
\* the rounding of what the operator gave
Binary(lo, op, ro) ==
    IF lo.raised THEN lo
    ELSE IF ro.raised THEN ro
    ELSE LET l == lo.value
             r == ro.value
         IN  IF l.kind # "num" \/ r.kind # "num" THEN Raised("TypeError")
             ELSE IF op = "+" THEN Returned(Ratio(l.np \/ r.np, l.v + r.v, 1))
             ELSE IF op = "-" THEN Returned(Ratio(l.np \/ r.np, l.v - r.v, 1))
             ELSE IF op = "*" THEN Returned(Ratio(l.np \/ r.np, l.v * r.v, 1))
             ELSE Divide(l, r)

\* eval(formula, {"__builtins__": {}}, var_values)
Eval(f, scope) ==
    IF Len(f) = 1 /\ IsOperand(f[1]) THEN Operand(f[1], scope)
    ELSE IF Len(f) = 2 /\ f[1] \in Signs /\ IsOperand(f[2])
    THEN Signed(f[1], Operand(f[2], scope))
    ELSE IF Len(f) = 3 /\ IsOperand(f[1]) /\ f[2] \in Operators
            /\ IsOperand(f[3])
    THEN Binary(Operand(f[1], scope), f[2], Operand(f[3], scope))
    ELSE IF Len(f) = 3 /\ f[1] \in Signs /\ f[2] \in Signs /\ IsOperand(f[3])
    THEN Signed(f[1], Signed(f[2], Operand(f[3], scope)))
    ELSE Raised("SyntaxError")

\* round(result, VALUE_PRECISION) inside the try, None and every exception
\* replaced by the default
RoundResult(o) ==
    IF o.raised THEN DEFAULT_VALUE
    ELSE IF o.value.kind = "none" THEN DEFAULT_VALUE
    ELSE IF o.value.kind = "num" THEN 100 * o.value.v
    ELSE IF o.value.kind = "ratio" THEN Round2(o.value.num, o.value.den)
    ELSE IF o.value.kind = "nonfinite" THEN o.value.v
    ELSE DEFAULT_VALUE

\* one failed lookup resets the whole scope
ScopeResetOnFailure(r, vs) ==
    [n \in DOMAIN vs |->
        IF \E m \in DOMAIN vs : GetVariableValue(r, vs[m]).raised
        THEN PyNum(DEFAULT_VALUE)
        ELSE GetVariableValue(r, vs[n]).value]

\* the loop that builds var_values, one try per variable
Scope(r, vs) ==
    [n \in DOMAIN vs |->
        IF GetVariableValue(r, vs[n]).raised THEN PyNum(DEFAULT_VALUE)
        ELSE GetVariableValue(r, vs[n]).value]

EvaluateFormulaForRow ==
    /\ stage = "configured"
    /\ stage' = "evaluated"
    /\ var_values' = Scope(row, variables)
    /\ result' = RoundResult(Eval(formula, var_values'))
    /\ UNCHANGED <<calcVars, rows, indicators, value, in_threshold,
                   threshold_violations, is_feasible, normalized,
                   total_weighted_score, rank_all, rank, scoreVars, aggVars,
                   exp_id, row, formula, variables, attributes,
                   attr_structure>>

\* ---------------------------------------------------- calculate_indicators
\* the keys of an indicator entry that the grouping and the loop read
RequiredIndicatorKeys ==
    {"target_dataframe", "indicator_id", "formula", "indicator_variables"}

\* calculate_indicators up to the call of evaluate_formula_for_row for one
\* row of the target table: a missing key raises KeyError out of the module
ReadIndicatorConfig ==
    /\ stage = "loaded"
    /\ LET indicator == indicators["IND01"]
       IN  IF RequiredIndicatorKeys \subseteq DOMAIN indicator
           THEN /\ stage' = "configured"
                /\ formula' = indicator.formula
                /\ variables' = indicator.indicator_variables
           ELSE /\ stage' = "raised"
                /\ UNCHANGED <<formula, variables>>
    /\ UNCHANGED <<calcVars, rows, indicators, value, in_threshold,
                   threshold_violations, is_feasible, normalized,
                   total_weighted_score, rank_all, rank, scoreVars, aggVars,
                   exp_id, row, attributes, attr_structure, var_values,
                   result>>

SampleAttributes ==
    [process |-> [process_attributes |-> <<
         Dict(<< <<"step_name", Str("comp_A")>>,
                 <<"disassembly_time", PyNum(10)>>,
                 <<"cost_rates",
                   Dict(<< <<"running",
                             Dict(<< <<"power_rating", PyNum(2)>> >>)>> >>)>>
              >>),
         Dict(<< <<"step_name", Str("comp_B")>>,
                 <<"disassembly_time", PyNum(15)>> >>) >>],
     product |-> [components |-> <<
         Dict(<< <<"component_name", Str("comp_A")>>,
                 <<"fixed_attributes",
                   Dict(<< <<"weight",
                             Dict(<< <<"value", PyNum(2)>> >>)>> >>)>>,
                 <<"quality_dependent_attributes",
                   Dict(<< <<"component_value", List(<<
                       Dict(<< <<"quality_min", PyNum(0)>>,
                               <<"quality_max", PyNum(1)>>,
                               <<"value", PyNum(50)>> >>),
                       Dict(<< <<"quality_min", PyNum(1)>>,
                               <<"quality_max", PyNum(10)>>,
                               <<"value", PyNum(100)>> >>) >>)>> >>)>>,
                 <<"end_of_life_options",
                   Dict(<< <<"recycle",
                             Dict(<< <<"quality_min", PyNum(0)>>,
                                     <<"quality_max", PyNum(1)>>,
                                     <<"circularity_rating", PyNum(5)>> >>)>>,
                           <<"remanufacture",
                             Dict(<< <<"quality_min", PyNum(1)>>,
                                     <<"quality_max", PyNum(10)>>,
                                     <<"circularity_rating", PyNum(9)>> >>)>>
                        >>)>> >>) >>]]

SampleStructure ==
    [t \in {"process", "systems", "product"} |->
        IF t = "process" THEN "process_attributes"
        ELSE IF t = "systems" THEN "system_configurations"
        ELSE "components"]

VarConfigs ==
    {[source |-> "dataframe", column |-> "a"],
     [source |-> "dataframe", column |-> "b"],
     [source |-> "dataframe", column |-> "step_name"],
     [source |-> "dataframe", column |-> "nonexistent_column"],
     [column |-> "a"],
     [source |-> "dataframe"],
     [source |-> "unknown_source_type"],
     [source |-> "attribute_file", file |-> "attributes_process.json",
      lookup_columns |-> <<"step_name">>,
      value_path |-> <<"cost_rates", "running", "power_rating">>],
     [source |-> "attribute_file", file |-> "attributes_product.json",
      lookup_columns |-> <<"step_name">>],
     [source |-> "quality_range", file |-> "attributes_product.json",
      lookup_column |-> "step_name", quality_column |-> "b",
      value_path |-> <<"quality_dependent_attributes", "component_value">>,
      value_key |-> "value"]}

Formulas ==
    {<<"a">>, <<"-", "a">>, <<"a", "+", "b">>, <<"a", "-", "b">>,
     <<"a", "*", "b">>, <<"a", "/", "b">>, <<"3", "/", "b">>,
     <<"a", "/", "0">>, <<"a", "*", "x">>, <<"a", "/">>, << >>}

\* rows of a numeric Series hold numpy scalars, rows that DataFrame.apply
\* cuts from a table with text columns hold Python numbers
FormulaRows ==
    {[np |-> n,
      cells |-> [c \in {"a", "b", "step_name"} |->
                   IF c = "step_name" THEN Str(t)
                   ELSE IF n THEN NpNum(IF c = "a" THEN x ELSE y)
                   ELSE PyNum(IF c = "a" THEN x ELSE y)]] :
        n \in BOOLEAN, x \in 0..MaxOperand, y \in 0..MaxOperand,
        t \in {"comp_A", "comp_B"}}

WellFormedIndicators ==
    {[indicator_id |-> "IND01", target_dataframe |-> "df_process",
      formula |-> f, indicator_variables |-> vs] :
        f \in Formulas,
        vs \in [{"a", "b"} -> VarConfigs] \cup [{"a"} -> VarConfigs]}

MalformedIndicators ==
    {[target_dataframe |-> "df_process", formula |-> <<"a">>,
      indicator_variables |-> << >>],
     [indicator_id |-> "IND01", formula |-> <<"a">>,
      indicator_variables |-> << >>],
     [indicator_id |-> "IND01", target_dataframe |-> "df_process",
      indicator_variables |-> << >>],
     [indicator_id |-> "IND01", target_dataframe |-> "df_process",
      formula |-> <<"a">>]}

InitFormula ==
    /\ stage = "loaded"
    /\ rows = 0
    /\ indicators \in [{"IND01"} -> WellFormedIndicators
                                      \cup MalformedIndicators]
    /\ row \in FormulaRows
    /\ attributes = SampleAttributes
    /\ attr_structure \in
          {SampleStructure,
           [t \in {"systems", "product"} |-> SampleStructure[t]]}
    /\ formula = NoColumn
    /\ variables = NoColumn
    /\ var_values = NoColumn
    /\ result = NoColumn
    /\ doe = NoColumn
    /\ df_process = NoColumn
    /\ df_product = NoColumn
    /\ exp_id = NoColumn
    /\ value = NoColumn
    /\ in_threshold = NoColumn
    /\ threshold_violations = NoColumn
    /\ is_feasible = NoColumn
    /\ normalized = NoColumn
    /\ weighted = NoColumn
    /\ economic_score = NoColumn
    /\ environmental_score = NoColumn
    /\ total_weighted_score = NoColumn
    /\ rank_all = NoColumn
    /\ rank = NoColumn
    /\ values = NoColumn
    /\ computed = NoColumn

NextFormula == ReadIndicatorConfig \/ EvaluateFormulaForRow

SpecFormula == InitFormula /\ [][NextFormula]_vars

\* ------------------------------------------- calculate_indicators, whole
\* An entity table is its set of column names and its rows, each a function
\* from the column names to cells.  No formula of the configurations
\* divides, so every result is a whole number and a cell holds it as such.
\* The configurations are well formed: every entry has the keys the loops
\* read, and every target table exists.
CATEGORY_COST_FACTOR == "cost_factor"

CATEGORY_AGGREGATE == "aggregate"

\* data[df_name].apply(calc_row, axis=1) for one row
CalcRow(r, f, vs) ==
    NpNum(RoundResult(Eval(f, Scope([np |-> TRUE, cells |-> r], vs)))
            \div 100)

\* data[df_name][col] = data[df_name].apply(calc_row, axis=1)
WithColumn(table, col, f, vs) ==
    [cols |-> table.cols \cup {col},
     rows |-> [k \in 1..Len(table.rows) |->
                 [c \in DOMAIN table.rows[k] \cup {col} |->
                     IF c = col THEN CalcRow(table.rows[k], f, vs)
                     ELSE table.rows[k][c]]]]

\* the keys of indicators_by_df or values_by_df, in insertion order
RECURSIVE TargetOrder(_, _)
TargetOrder(items, seen) ==
    IF items = << >> THEN << >>
    ELSE IF Head(items).target_dataframe \in seen
    THEN TargetOrder(Tail(items), seen)
    ELSE <<Head(items).target_dataframe>>
         \o TargetOrder(Tail(items),
                        seen \cup {Head(items).target_dataframe})

\* indicators_by_df[df_name] or values_by_df[df_name]
TargetedAt(items, df_name) ==
    SelectSeq(items, LAMBDA v : v.target_dataframe = df_name)

\* value.get('value_id', value.get('value_name'))
ValueCol(v) ==
    IF "value_id" \in DOMAIN v THEN v.value_id
    ELSE IF "value_name" \in DOMAIN v THEN v.value_name
    ELSE "None"

\* the values of a table in the order of the lists, no reordering
OrderedValuesAsListed(vals) ==
    SelectSeq(vals, LAMBDA v : v.category \in {CATEGORY_COST_FACTOR,
                                               CATEGORY_AGGREGATE})

\* ordered_values = cost_factors + aggregates
OrderedValues(vals) ==
    SelectSeq(vals, LAMBDA v : v.category = CATEGORY_COST_FACTOR)
    \o SelectSeq(vals, LAMBDA v : v.category = CATEGORY_AGGREGATE)

IndicatorStep(indicator) ==
    [df |-> indicator.target_dataframe, col |-> indicator.indicator_id,
     formula |-> indicator.formula,
     variables |-> indicator.indicator_variables, kind |-> "indicator"]

ValueStep(v) ==
    [df |-> v.target_dataframe, col |-> ValueCol(v), formula |-> v.formula,
     variables |-> v.value_variables, kind |-> v.category]

\* the writes of the indicator loop, table by table
RECURSIVE IndicatorSteps(_, _)
IndicatorSteps(items, dfs) ==
    IF dfs = << >> THEN << >>
    ELSE LET targeted == TargetedAt(items, Head(dfs))
         IN  [j \in 1..Len(targeted) |-> IndicatorStep(targeted[j])]
             \o IndicatorSteps(items, Tail(dfs))

\* the writes of the value loop, table by table
RECURSIVE ValueSteps(_, _)
ValueSteps(items, dfs) ==
    IF dfs = << >> THEN << >>
    ELSE LET ordered_values == OrderedValues(TargetedAt(items, Head(dfs)))
         IN  [j \in 1..Len(ordered_values) |-> ValueStep(ordered_values[j])]
             \o ValueSteps(items, Tail(dfs))

\* the tables after the writes, each on the table as the writes before it
\* left it
RECURSIVE ApplySteps(_, _)
ApplySteps(tables, steps) ==
    IF steps = << >> THEN tables
    ELSE LET s == Head(steps)
         IN  ApplySteps([tables EXCEPT
                           ![s.df] = WithColumn(@, s.col, s.formula,
                                                s.variables)],
                        Tail(steps))

CalculateIndicators ==
    /\ stage = "loaded"
    /\ LET all_values == values.values \o values.special_values
           steps == IndicatorSteps(indicators, TargetOrder(indicators, {}))
                    \o ValueSteps(all_values, TargetOrder(all_values, {}))
           tables == ApplySteps([df_process |-> df_process,
                                 df_product |-> df_product], steps)
       IN  /\ df_process' = tables.df_process
           /\ df_product' = tables.df_product
           /\ computed' = steps
    /\ stage' = "calculated"
    /\ UNCHANGED <<rows, indicators, value, in_threshold,
                   threshold_violations, is_feasible, normalized,
                   total_weighted_score, rank_all, rank, scoreVars, doe,
                   exp_id, formulaVars, values>>

ColumnVariable(col) == [source |-> "dataframe", column |-> col]

IndicatorPool ==
    {[indicator_id |-> "IND01", target_dataframe |-> "df_process",
      formula |-> <<"a">>,
      indicator_variables |-> [n \in {"a"} |-> ColumnVariable("t")]],
     [indicator_id |-> "IND02", target_dataframe |-> "df_product",
      formula |-> <<"a", "*", "3">>,
      indicator_variables |-> [n \in {"a"} |-> ColumnVariable("w")]]}

\* regular values: a cost factor, an aggregate of two cost factors, a value
\* of another category, a cost factor of the product table
RegularValuePool ==
    {[value_id |-> "VAL01", target_dataframe |-> "df_process",
      category |-> "cost_factor", formula |-> <<"a", "*", "3">>,
      value_variables |-> [n \in {"a"} |-> ColumnVariable("t")]],
     [value_id |-> "VAL02", target_dataframe |-> "df_process",
      category |-> "aggregate", formula |-> <<"a", "+", "b">>,
      value_variables |->
          [n \in {"a", "b"} |->
              ColumnVariable(IF n = "a" THEN "VAL01" ELSE "COSTS_FIX")]],
     [value_id |-> "VAL03", target_dataframe |-> "df_process",
      category |-> "revenue", formula |-> <<"a">>,
      value_variables |-> [n \in {"a"} |-> ColumnVariable("t")]],
     [value_id |-> "VAL04", target_dataframe |-> "df_product",
      category |-> "cost_factor", formula |-> <<"a">>,
      value_variables |-> [n \in {"a"} |-> ColumnVariable("w")]]}

\* special values, identified by value_name
SpecialValuePool ==
    {[value_name |-> "PROFIT", target_dataframe |-> "df_process",
      category |-> "aggregate", formula |-> <<"-", "a">>,
      value_variables |-> [n \in {"a"} |-> ColumnVariable("VAL01")]],
     [value_name |-> "COSTS_FIX", target_dataframe |-> "df_process",
      category |-> "cost_factor", formula |-> <<"a">>,
      value_variables |-> [n \in {"a"} |-> ColumnVariable("t")]]}

\* the lists of distinct entries of a pool, up to a length
DistinctSeqs(pool, n) ==
    {q \in SeqsUpTo(pool, n) :
        \A j, k \in 1..Len(q) : q[j] = q[k] => j = k}

\* an entity table of one numeric column beside the experiment id
EntityTable(col, cells) ==
    [cols |-> {"experiment_id", col},
     rows |-> [k \in 1..Len(cells) |->
                 [c \in {"experiment_id", col} |->
                     NpNum(IF c = col THEN cells[k] ELSE 1)]]]

InitCalc ==
    /\ stage = "loaded"
    /\ rows = 0
    /\ indicators \in DistinctSeqs(IndicatorPool, 2)
    /\ values \in [values : DistinctSeqs(RegularValuePool, 3),
                    special_values : DistinctSeqs(SpecialValuePool, 2)]
    /\ df_process \in {EntityTable("t", cells) :
                          cells \in SeqsUpTo({1, 2}, 2) \ {<< >>}}
    /\ df_product = EntityTable("w", <<2>>)
    /\ computed = << >>
    /\ doe = NoColumn
    /\ exp_id = NoColumn
    /\ row = NoColumn
    /\ formula = NoColumn
    /\ variables = NoColumn
    /\ attributes = NoColumn
    /\ attr_structure = NoColumn
    /\ var_values = NoColumn
    /\ result = NoColumn
    /\ value = NoColumn
    /\ in_threshold = NoColumn
    /\ threshold_violations = NoColumn
    /\ is_feasible = NoColumn
    /\ normalized = NoColumn
    /\ weighted = NoColumn
    /\ economic_score = NoColumn
    /\ environmental_score = NoColumn
    /\ total_weighted_score = NoColumn
    /\ rank_all = NoColumn
    /\ rank = NoColumn

NextCalc == CalculateIndicators

SpecCalc == InitCalc /\ [][NextCalc]_vars

\* --------------------------------- get_variable_value on drawn attributes
\* The call of get_variable_value for the variable a of the row, on attribute
\* tables drawn from small pools: process entries that match or miss the
\* lookup columns and hold the whole value path or lack one of its segments,
\* product components with up to two quality ranges.
ResolveVariable ==
    /\ stage = "configured"
    /\ stage' = "resolved"
    /\ result' = GetVariableValue(row, variables["a"])
    /\ UNCHANGED <<calcVars, rows, indicators, value, in_threshold,
                   threshold_violations, is_feasible, normalized,
                   total_weighted_score, rank_all, rank, scoreVars, aggVars,
                   exp_id, row, formula, variables, attributes,
                   attr_structure, var_values>>

PowerPath == <<"cost_rates", "running", "power_rating">>

\* what an entry holds of the path cost_rates.running.power_rating
EntryShapes == {"whole", "no_last", "no_middle", "no_first"}

ProcessEntry(step, system, shape, power) ==
    Dict(<< <<"step_name", Str(step)>>, <<"system_id", Str(system)>>,
            <<"disassembly_time", PyNum(10)>> >>
         \o (CASE shape = "whole" ->
                   << <<"cost_rates",
                        Dict(<< <<"running",
                                  Dict(<< <<"power_rating",
                                            PyNum(power)>> >>)>> >>)>> >>
               [] shape = "no_last" ->
                   << <<"cost_rates",
                        Dict(<< <<"running", Dict(<< >>)>> >>)>> >>
               [] shape = "no_middle" ->
                   << <<"cost_rates", Dict(<< >>)>> >>
               [] OTHER -> << >>))

ProcessEntries ==
    {ProcessEntry(step, system, "whole", power) :
        step \in {"comp_A", "comp_B"}, system \in {"s1", "s2"},
        power \in {2, 3}}
    \cup {ProcessEntry("comp_A", "s1", shape, 2) : shape \in EntryShapes}

\* qualities and range bounds, in tenths
QualityLevels == {0, 5, 10}

RangeEntry(q_min, q_max, v) ==
    Dict(<< <<"quality_min", PyNum(q_min)>>, <<"quality_max", PyNum(q_max)>>,
            <<"value", PyNum(v)>> >>)

RangeEntries ==
    {RangeEntry(q_min, q_max, v) :
        q_min \in QualityLevels, q_max \in QualityLevels, v \in {50, 100}}

RangePath == <<"quality_dependent_attributes", "component_value">>

Component(name, ranges) ==
    Dict(<< <<"component_name", Str(name)>>,
            <<"quality_dependent_attributes",
              Dict(<< <<"component_value", List(ranges)>> >>)>> >>)

LookupRows ==
    {[np |-> n,
      cells |-> [c \in {"step_name", "system_id", "b"} |->
                   IF c = "step_name" THEN Str(step)
                   ELSE IF c = "system_id" THEN Str(system)
                   ELSE IF n THEN NpNum(q) ELSE PyNum(q)]] :
        n \in BOOLEAN, step \in {"comp_A", "comp_B"},
        system \in {"s1", "s2"}, q \in QualityLevels}

AttributeFileConfigs ==
    {[source |-> "attribute_file", file |-> "attributes_process.json",
      lookup_columns |-> cols, value_path |-> path] :
        cols \in {<<"step_name">>, <<"step_name", "system_id">>},
        path \in {PowerPath, <<"disassembly_time">>}}

QualityRangeConfig ==
    [source |-> "quality_range", file |-> "attributes_product.json",
     lookup_column |-> "step_name", quality_column |-> "b",
     value_path |-> RangePath, value_key |-> "value"]

InitLookup ==
    /\ stage = "configured"
    /\ rows = 0
    /\ indicators = NoColumn
    /\ formula = <<"a">>
    /\ attr_structure = SampleStructure
    /\ row \in LookupRows
    /\ \/ /\ variables \in [{"a"} -> AttributeFileConfigs]
          /\ row.cells["b"].v = 0
          /\ ~row.np
          /\ \E entries \in SeqsUpTo(ProcessEntries, 2) :
                attributes =
                    [process |-> [process_attributes |-> entries],
                     product |-> SampleAttributes.product]
       \/ /\ variables = [n \in {"a"} |-> QualityRangeConfig]
          /\ row.cells["system_id"] = Str("s1")
          /\ \E ranges \in SeqsUpTo(RangeEntries, 2) :
                \E components \in
                      {<< >>, <<Component("comp_A", ranges)>>,
                       <<Component("comp_B", <<RangeEntry(0, 10, 100)>>),
                         Component("comp_A", ranges)>>,
                       <<Component("comp_A", ranges),
                         Component("comp_A", <<RangeEntry(0, 10, 100)>>)>>} :
                    attributes =
                        [process |-> SampleAttributes.process,
                         product |-> [components |-> components]]
    /\ var_values = NoColumn
    /\ result = NoColumn
    /\ doe = NoColumn
    /\ df_process = NoColumn
    /\ df_product = NoColumn
    /\ exp_id = NoColumn
    /\ value = NoColumn
    /\ in_threshold = NoColumn
    /\ threshold_violations = NoColumn
    /\ is_feasible = NoColumn
    /\ normalized = NoColumn
    /\ weighted = NoColumn
    /\ economic_score = NoColumn
    /\ environmental_score = NoColumn
    /\ total_weighted_score = NoColumn
    /\ rank_all = NoColumn
    /\ rank = NoColumn
    /\ values = NoColumn
    /\ computed = NoColumn

NextLookup == ResolveVariable

SpecLookup == InitLookup /\ [][NextLookup]_vars

\* ================================================================ properties
AfterThreshold == stage \in {"thresholded", "normalized"} /\ rows > 0

AfterNormalize == stage = "normalized" /\ rows > 0

AfterRank == stage = "ranked" /\ rows > 0 /\ total_weighted_score # NoColumn

\* the indicator has a column, a threshold and a recognised direction
Directed(i) ==
    /\ i \in DOMAIN value
    /\ indicators[i].has_threshold
    /\ indicators[i].direction \in {"minimize", "maximize"}

Complies(i, e) ==
    IF indicators[i].direction = "minimize"
    THEN value[i][e] <= indicators[i].threshold
    ELSE value[i][e] >= indicators[i].threshold

\* C1: after apply_threshold_filters, for every row and every indicator with
\* a column, a threshold and a direction, the in_threshold flag is true
\* exactly when value <= threshold (minimize) or value >= threshold
\* (maximize); a value equal to the threshold is within threshold.
C1_InThresholdMatchesDirection ==
    AfterThreshold =>
        \A i \in IndIds : Directed(i) =>
            /\ i \in DOMAIN in_threshold
            /\ \A e \in Exps :
                  /\ in_threshold[i][e] = Complies(i, e)
                  /\ (value[i][e] = indicators[i].threshold => in_threshold[i][e])

C1_Witness ==
    /\ AfterThreshold
    /\ \E i, j \in IndIds : \E e \in Exps :
          /\ Directed(i) /\ indicators[i].direction = "minimize"
          /\ Directed(j) /\ indicators[j].direction = "maximize"
          /\ value[i][e] = indicators[i].threshold /\ in_threshold[i][e]
          /\ value[j][e] = indicators[j].threshold /\ in_threshold[j][e]
          /\ \E f \in Exps : ~in_threshold[i][f] /\ ~in_threshold[j][f]

\* C2: after apply_threshold_filters, threshold_violations of a row is the
\* number of checked indicators whose flag is false on that row, and
\* is_feasible is true exactly when that number is 0, that is exactly when
\* every flag of the row is true.
C2_FeasibleIffNoViolation ==
    AfterThreshold =>
        \A e \in Exps :
            /\ threshold_violations[e] =
                  Cardinality({i \in DOMAIN in_threshold : in_threshold[i][e] = FALSE})
            /\ is_feasible[e] = (threshold_violations[e] = 0)
            /\ is_feasible[e] = (\A i \in DOMAIN in_threshold : in_threshold[i][e])

C2_Witness ==
    /\ AfterThreshold
    /\ DOMAIN in_threshold = IndIds
    /\ \E e, f, g \in Exps :
          /\ threshold_violations[e] = 2 /\ ~is_feasible[e]
          /\ threshold_violations[f] = 1 /\ ~is_feasible[f]
          /\ threshold_violations[g] = 0 /\ is_feasible[g]

\* C3: after rank_experiments on a table with total_weighted_score and
\* is_feasible, rank is null exactly on the infeasible rows and rank_all is
\* non-null on every row.
C3_RankNullIffInfeasible ==
    AfterRank =>
        \A e \in Exps :
            /\ (rank[e] = NA) <=> ~is_feasible[e]
            /\ is_feasible[e] => rank[e] \in 1..rows
            /\ rank_all[e] # NA

C3_Witness ==
    /\ AfterRank
    /\ \E e, f \in Exps :
          /\ is_feasible[e] /\ rank[e] # NA
          /\ ~is_feasible[f] /\ rank[f] = NA /\ rank_all[f] # NA

\* C4: rank_all of a row is 1 + the number of rows with a strictly higher
\* total_weighted_score; so equal scores share a rank, a strictly higher
\* score has a strictly smaller rank_all, the maximum score has rank_all 1
\* and every rank_all lies in 1..N.
C4_RankAllCountsStrictlyHigher ==
    AfterRank =>
        /\ \A e \in Exps :
              /\ rank_all[e] = 1 + Cardinality({x \in Exps :
                     total_weighted_score[x] > total_weighted_score[e]})
              /\ rank_all[e] \in 1..rows
              /\ (\A x \in Exps : total_weighted_score[x] <= total_weighted_score[e])
                     => rank_all[e] = 1
        /\ \A e, f \in Exps :
              /\ total_weighted_score[e] = total_weighted_score[f]
                     => rank_all[e] = rank_all[f]
              /\ total_weighted_score[e] > total_weighted_score[f]
                     => rank_all[e] < rank_all[f]

C4_Witness ==
    /\ AfterRank
    /\ \E e, f, g \in Exps :
          /\ e # f
          /\ total_weighted_score[e] = total_weighted_score[f]
          /\ total_weighted_score[g] < total_weighted_score[e]
          /\ rank_all[e] = 1 /\ rank_all[f] = 1 /\ rank_all[g] = 3

\* C5: rank of a feasible row is 1 + the number of feasible rows with a
\* strictly higher score, whatever the infeasible rows score; when a
\* feasible row exists, the feasible rows with the highest feasible score
\* hold rank 1.
C5_RankCountsFeasibleOnly ==
    AfterRank =>
        \A e \in Exps : is_feasible[e] =>
            /\ rank[e] = 1 + Cardinality({x \in Exps :
                   /\ is_feasible[x]
                   /\ total_weighted_score[x] > total_weighted_score[e]})
            /\ (\A x \in Exps : is_feasible[x] =>
                   total_weighted_score[x] <= total_weighted_score[e])
                   => rank[e] = 1

C5_Witness ==
    /\ AfterRank
    /\ \E e, f, g \in Exps :
          /\ ~is_feasible[e] /\ is_feasible[f] /\ is_feasible[g]
          /\ total_weighted_score[e] > total_weighted_score[f]
          /\ total_weighted_score[f] > total_weighted_score[g]
          /\ rank[f] = 1 /\ rank[g] = 2 /\ rank_all[f] = 2

\* C6: after normalize_indicators, every row whose value violates the
\* threshold of an indicator (value > threshold for minimize, value <
\* threshold for maximize) has a strictly negative normalized value.
C6_ViolationIsNegative ==
    AfterNormalize =>
        \A i \in IndIds : Directed(i) =>
            \A e \in Exps : ~Complies(i, e) => normalized[i][e] < 0

\* C7: after normalize_indicators, every row whose value complies with the
\* threshold of an indicator has a normalized value between 0 and 1,
\* whatever the values of the other rows.
C7_CompliantInUnitInterval ==
    AfterNormalize =>
        \A i \in IndIds : Directed(i) =>
            /\ i \in DOMAIN normalized
            /\ \A e \in Exps : Complies(i, e) =>
                  (0 <= normalized[i][e] /\ normalized[i][e] <= ONE)

C7_Witness ==
    /\ AfterNormalize
    /\ \E i \in IndIds : \E e, f, g \in Exps :
          /\ Directed(i)
          /\ Complies(i, e) /\ normalized[i][e] = ONE
          /\ Complies(i, f) /\ normalized[i][f] >= 0 /\ normalized[i][f] < ONE
          /\ ~Complies(i, g) /\ normalized[i][g] < 0

\* C8: after normalize_indicators, every normalized value of every row,
\* feasible or not, is at most 1.0.
C8_NormalizedAtMostOne ==
    AfterNormalize =>
        \A i \in DOMAIN normalized : \A e \in Exps : normalized[i][e] <= ONE

\* the best aggregated value over all rows, feasible or not
GlobalBest(i) ==
    IF indicators[i].direction = "maximize"
    THEN SetMax({value[i][e] : e \in Exps})
    ELSE SetMin({value[i][e] : e \in Exps})

\* the worst aggregated value over all rows, anchored at the threshold
AnchoredWorst(i) ==
    IF indicators[i].direction = "maximize"
    THEN MaxOf(SetMin({value[i][e] : e \in Exps}), indicators[i].threshold)
    ELSE MinOf(SetMax({value[i][e] : e \in Exps}), indicators[i].threshold)

\* C9: for a non-degenerate indicator, the rows holding the best value over
\* ALL rows (minimum for minimize, maximum for maximize) have a normalized
\* value of exactly 1.0, feasible or not.
C9_GlobalBestIsOne ==
    AfterNormalize =>
        \A i \in IndIds : (Directed(i) /\ GlobalBest(i) # AnchoredWorst(i)) =>
            \A e \in Exps : value[i][e] = GlobalBest(i) => normalized[i][e] = ONE

C9_Witness ==
    /\ AfterNormalize
    /\ \E i \in IndIds : \E e, f \in Exps :
          /\ Directed(i) /\ GlobalBest(i) # AnchoredWorst(i)
          /\ indicators[i].direction = "maximize"
          /\ value[i][e] = GlobalBest(i) /\ ~is_feasible[e]
          /\ normalized[i][e] = ONE
          /\ is_feasible[f] /\ value[i][f] # GlobalBest(i)
          /\ normalized[i][f] # ONE

\* C10: when all rows share one aggregated value for an indicator, every
\* normalized value of that indicator is exactly 1.0, whatever the
\* threshold, also one that every row violates.
C10_IdenticalValuesAreOne ==
    AfterNormalize =>
        \A i \in DOMAIN normalized :
            (\A e, f \in Exps : value[i][e] = value[i][f]) =>
                \A e \in Exps : normalized[i][e] = ONE

C10_Witness ==
    /\ AfterNormalize
    /\ rows >= 2
    /\ \E i, j \in DOMAIN normalized :
          /\ Directed(i) /\ Directed(j)
          /\ \A e, f \in Exps : value[i][e] = value[i][f]
          /\ \A e \in Exps : ~Complies(i, e) /\ normalized[i][e] = ONE
          /\ \A e, f \in Exps : value[j][e] = value[j][f]
          /\ \A e \in Exps : Complies(j, e) /\ normalized[j][e] = ONE

AfterWeights == stage \in {"weighted", "scored"} /\ rows > 0

AfterScore == stage = "scored" /\ rows > 0

\* the sum over a set of columns, written out for the two indicators
SumOfWeighted(cols, e) ==
    (IF "IND01" \in cols THEN weighted["IND01"][e] ELSE 0)
    + (IF "IND02" \in cols THEN weighted["IND02"][e] ELSE 0)

\* C11: after calculate_total_score, total_weighted_score of a row is the
\* sum of ALL weighted columns that exist, also those of indicators whose
\* category is neither economic nor environmental; it is not the sum of the
\* two category scores and may differ from it.
C11_TotalIsSumOfAllWeighted ==
    AfterScore =>
        \A e \in Exps :
            /\ total_weighted_score[e] = SumOfWeighted(DOMAIN weighted, e)
            /\ economic_score[e] = SumOfWeighted(
                   {i \in DOMAIN weighted : indicators[i].category = "economic"}, e)
            /\ environmental_score[e] = SumOfWeighted(
                   {i \in DOMAIN weighted : indicators[i].category = "environmental"}, e)

C11_Witness ==
    /\ AfterScore
    /\ \E i, j \in DOMAIN weighted : \E e \in Exps :
          /\ indicators[i].category = "other" /\ weighted[i][e] # 0
          /\ indicators[j].category = "economic" /\ weighted[j][e] # 0
          /\ total_weighted_score[e] # economic_score[e] + environmental_score[e]
          /\ total_weighted_score[e] = weighted[i][e] + weighted[j][e]

\* C12: after apply_weights, for every row and every indicator with a
\* normalized column, the weighted value is normalized x weight rounded to
\* score_precision decimals, and a NaN or infinite result is replaced by 0;
\* weight 0.3 on 1.0 gives 0.30 and weight 0.2 on 0.71 gives 0.14.
C12_WeightedIsRoundedProduct ==
    AfterWeights =>
        \A i \in DOMAIN normalized : \A e \in Exps :
            LET n == normalized[i][e]
                w == indicators[i].weight
            IN  /\ i \in DOMAIN weighted
                /\ IsFinite(n) =>
                      /\ 10 * weighted[i][e] - n * w <= 5
                      /\ n * w - 10 * weighted[i][e] <= 5
                /\ ~IsFinite(n) => weighted[i][e] = 0
                /\ (n = 100 /\ w = 3) => weighted[i][e] = 30
                /\ (n = 71 /\ w = 2) => weighted[i][e] = 14

C12_Witness ==
    /\ AfterWeights
    /\ \E i, j \in DOMAIN normalized : \E e, f \in Exps :
          /\ normalized[i][e] = 100 /\ indicators[i].weight = 3
          /\ weighted[i][e] = 30
          /\ normalized[j][e] = 71 /\ indicators[j].weight = 2
          /\ weighted[j][e] = 14
          /\ normalized[i][f] = NaN /\ weighted[i][f] = 0
          /\ normalized[j][f] = PosInf /\ weighted[j][f] = 0

\* C13: an indicator without a normalized column gets no weighted column
\* (not a column of zeros), the other indicators are still weighted, and
\* the skipped indicator adds nothing to economic_score,
\* environmental_score and total_weighted_score.
C13_MissingNormalizedIsSkipped ==
    AfterWeights =>
        /\ DOMAIN weighted = DOMAIN normalized
        /\ AfterScore =>
              \A e \in Exps :
                  /\ total_weighted_score[e] = SumOfWeighted(DOMAIN normalized, e)
                  /\ economic_score[e] = SumOfWeighted(
                         {i \in DOMAIN normalized : indicators[i].category = "economic"}, e)
                  /\ environmental_score[e] = SumOfWeighted(
                         {i \in DOMAIN normalized : indicators[i].category = "environmental"}, e)

C13_Witness ==
    /\ AfterScore
    /\ \E i, j \in IndIds : \E e \in Exps :
          /\ i \notin DOMAIN normalized /\ i \notin DOMAIN weighted
          /\ indicators[i].category = "economic"
          /\ j \in DOMAIN weighted /\ weighted[j][e] # 0
          /\ indicators[j].category = "environmental"
          /\ economic_score[e] = 0
          /\ total_weighted_score[e] = weighted[j][e]

\* C20: when apply_threshold_filters checks no indicator on a non-empty
\* table (every indicator skipped for a missing column or key), every row
\* gets threshold_violations = 0 and is_feasible = true.
C20_NoChecksMeansFeasible ==
    (AfterThreshold /\ \A i \in IndIds : ~(indicators[i].has_threshold /\ i \in DOMAIN value)) =>
        /\ in_threshold = NoColumn
        /\ \A e \in Exps : threshold_violations[e] = 0 /\ is_feasible[e] = TRUE

C20_Witness ==
    /\ AfterThreshold
    /\ rows >= 2
    /\ \E i, j \in IndIds :
          /\ i # j
          /\ ~indicators[i].has_threshold /\ i \in DOMAIN value
          /\ indicators[j].has_threshold /\ j \notin DOMAIN value
    /\ \A e \in Exps : threshold_violations[e] = 0 /\ is_feasible[e]

\* ------------------------------------------------------------ aggregation
AfterAggregation == stage = "aggregated"

\* the experiments that have a row in the table
IdsIn(table) == {table.rows[k].exp_id : k \in 1..Len(table.rows)}

InAnySourceTable(e) ==
    \/ e \in IdsIn(df_process)
    \/ df_product.present /\ e \in IdsIn(df_product)

InResult(e) == \E k \in 1..Len(exp_id) : exp_id[k] = e

\* the indicator entry is well formed and its column is in its target table
Aggregable(i) ==
    /\ RequiredAggKeys \subseteq DOMAIN indicators[i]
    /\ indicators[i].target_dataframe \in DOMAIN Data
    /\ i \in Data[indicators[i].target_dataframe].cols

\* the values the target table of indicator i holds for experiment e
TargetValues(i, e) == GroupValues(Data[indicators[i].target_dataframe], e)

C15_IndicatorFailureIsIsolated ==
    stage = "raised" => (doe = {} \/ df_process.rows = << >>)

\* C16: the aggregated value of an experiment is the sum of its target rows
\* with "sum", their mean to the nearest hundredth with "average", and one
\* of its own target rows with "none".
C16_AggregatedValueFollowsMethod ==
    AfterAggregation =>
        \A i \in DOMAIN value : \A k \in 1..Len(exp_id) :
            LET g == TargetValues(i, exp_id[k])
                method == indicators[i].aggregation
                v == value[i][k]
            IN  g # << >> =>
                  IF method = "sum" THEN v = SeqSum(g)
                  ELSE IF method \in {"average", "mean"}
                       THEN 2 * Abs(Len(g) * v - SeqSum(g)) <= Len(g)
                  ELSE \E j \in 1..Len(g) : v = g[j]

C16_Witness ==
    /\ AfterAggregation
    /\ "IND01" \in DOMAIN value
    /\ indicators["IND01"].aggregation = "average"
    /\ "IND02" \in DOMAIN value
    /\ indicators["IND02"].aggregation = "none"
    /\ \E k \in 1..Len(exp_id) :
          /\ Len(TargetValues("IND01", exp_id[k])) = 2
          /\ value["IND01"][k] = 2
          /\ SeqSum(TargetValues("IND01", exp_id[k])) = 3
          /\ value["IND02"][k] = 1

\* ------------------------------------------------------ formula evaluation
AfterEvaluation == stage = "evaluated"

\* the formula divides by an operand that is zero in the scope
DividesByZero ==
    /\ Len(formula) = 3
    /\ formula[2] = "/"
    /\ ~Operand(formula[1], var_values).raised
    /\ Operand(formula[1], var_values).value.kind = "num"
    /\ ~Operand(formula[3], var_values).raised
    /\ Operand(formula[3], var_values).value = PyNum(0)
       \/ Operand(formula[3], var_values).value = NpNum(0)

\* the formula names something that is no variable of the map
UnresolvedName ==
    \E j \in 1..Len(formula) :
        formula[j] \in Names /\ formula[j] \notin DOMAIN variables

\* no expression of the modelled grammar
SyntaxError == Eval(formula, << >>) = Raised("SyntaxError")

\* C17 as stated: once evaluate_formula_for_row has returned, the result is
\* a finite number, and it is 0 when the formula divides by zero, names
\* something that is not a variable, or does not parse.
C17_EvaluationErrorYieldsZero ==
    AfterEvaluation =>
        /\ IsFinite(result)
        /\ (DividesByZero \/ UnresolvedName \/ SyntaxError) => result = 0

\* what get_variable_value gives for the variable n of the map
Resolution(n) == GetVariableValue(row, variables[n])

\* C18: once evaluate_formula_for_row has returned, a variable whose
\* resolution raised is bound to 0, every other variable is bound to the
\* value its resolution returned, and the formula has been evaluated with
\* them: the sum a + b of a failed a and a number b is b.
C18_FailedVariableIsZeroOthersKept ==
    AfterEvaluation =>
        /\ \A n \in DOMAIN variables :
              IF Resolution(n).raised
              THEN var_values[n] = PyNum(0)
              ELSE var_values[n] = Resolution(n).value
        /\ (/\ formula = <<"a", "+", "b">>
            /\ "b" \in DOMAIN variables
            /\ Resolution("a").raised
            /\ ~Resolution("b").raised
            /\ Resolution("b").value.kind = "num")
           => result = 100 * Resolution("b").value.v

C18_Witness ==
    /\ AfterEvaluation
    /\ formula = <<"a", "+", "b">>
    /\ variables["a"] = [source |-> "dataframe",
                         column |-> "nonexistent_column"]
    /\ "b" \in DOMAIN variables
    /\ var_values["a"] = PyNum(0)
    /\ var_values["b"] = NpNum(2)
    /\ result = 200

\* the variable spec lacks its source key or a key its source requires
MissingRequiredKey(var_config) ==
    \/ "source" \notin DOMAIN var_config
    \/ /\ "source" \in DOMAIN var_config
       /\ \/ /\ var_config.source = "dataframe"
             /\ "column" \notin DOMAIN var_config
          \/ /\ var_config.source = "attribute_file"
             /\ ~({"file", "lookup_columns", "value_path"}
                    \subseteq DOMAIN var_config)
          \/ /\ var_config.source \in {"quality_range", "quality_threshold"}
             /\ ~(QualityKeys \subseteq DOMAIN var_config)

\* C19 as stated: a variable spec that lacks a required key makes the
\* indicator computation fail, so no evaluation returns with such a spec in
\* its variable map.
C19_MissingKeyIsFatal ==
    AfterEvaluation =>
        \A n \in DOMAIN variables : ~MissingRequiredKey(variables[n])

\* C19 amended: get_variable_value raises KeyError for a variable spec that
\* lacks a required key, evaluate_formula_for_row binds that variable to 0
\* and returns; an indicator entry that lacks a required key is never
\* evaluated, calculate_indicators raises on it.
C19_MissingKeyRaisedThenDefaulted ==
    /\ AfterEvaluation =>
          \A n \in DOMAIN variables :
              MissingRequiredKey(variables[n]) =>
                  /\ Resolution(n) = Raised("KeyError")
                  /\ var_values[n] = PyNum(0)
    /\ ~(RequiredIndicatorKeys \subseteq DOMAIN indicators["IND01"])
          => stage \in {"loaded", "raised"}

C19_Witness ==
    /\ AfterEvaluation
    /\ formula = <<"a", "-", "b">>
    /\ variables["a"] = [column |-> "a"]
    /\ "b" \in DOMAIN variables
    /\ var_values["a"] = PyNum(0)
    /\ var_values["b"] = PyNum(1)
    /\ result = -100

\* ------------------------------------------- normalization, second reading
\* a is at least as good as b for the indicator i
AtLeastAsGood(i, a, b) ==
    IF indicators[i].direction = "minimize"
    THEN value[i][a] <= value[i][b]
    ELSE value[i][a] >= value[i][b]

\* C26 as stated: for a non-degenerate indicator and any two rows a and b,
\* if a's aggregated value is at least as good as b's then normalized(a) >=
\* normalized(b), for every threshold.
C26_NormalizationKeepsOrder ==
    AfterNormalize =>
        \A i \in IndIds : (Directed(i) /\ GlobalBest(i) # AnchoredWorst(i)) =>
            \A a, b \in Exps :
                AtLeastAsGood(i, a, b) => normalized[i][a] >= normalized[i][b]

\* the indicator has a column and a threshold, whatever its direction string
Normalized(i) == i \in DOMAIN value /\ indicators[i].has_threshold

\* C27 as stated: whenever two rows differ in the aggregated value of an
\* indicator, its normalized column is not the constant 1.0 of the
\* degenerate branch, and a row that violates the threshold is not given
\* 1.0.
C27_DegenerateOnlyWhenIdentical ==
    AfterNormalize =>
        \A i \in IndIds :
            (Directed(i) /\ \E e, f \in Exps : value[i][e] # value[i][f]) =>
                /\ \E e \in Exps : normalized[i][e] # ONE
                /\ \A e \in Exps : ~Complies(i, e) => normalized[i][e] # ONE

\* C28 as stated: for a direction string that is neither minimize nor
\* maximize, in_threshold is value <= threshold, the normalized value is
\* (worst - value) / (worst - best) with best = min(values) and worst =
\* min(max(values), threshold), and a row that fails the threshold check is
\* never normalized into [0, 1].
C28_UnknownDirectionIsMinimize ==
    AfterNormalize =>
        \A i \in IndIds :
            (Normalized(i) /\ indicators[i].direction = "other") =>
                LET best == SetMin({value[i][e] : e \in Exps})
                    worst == MinOf(SetMax({value[i][e] : e \in Exps}),
                                   indicators[i].threshold)
                IN  \A e \in Exps :
                        /\ in_threshold[i][e] =
                              (value[i][e] <= indicators[i].threshold)
                        /\ best # worst =>
                              normalized[i][e] =
                                  Round2(worst - value[i][e], worst - best)
                        /\ ~in_threshold[i][e] =>
                              (normalized[i][e] < 0 \/ normalized[i][e] > ONE)

\* ------------------------------------------------- the two rank spaces
\* C30: after rank_experiments, every feasible row has rank <= rank_all; two
\* feasible rows are ordered by rank exactly as by rank_all, and tie in one
\* exactly when they tie in the other; when every row is feasible the two
\* columns are equal.
C30_RankSpacesAreConsistent ==
    AfterRank =>
        /\ \A e \in Exps : is_feasible[e] => rank[e] <= rank_all[e]
        /\ \A a, b \in Exps : (is_feasible[a] /\ is_feasible[b]) =>
              /\ (rank[a] < rank[b]) <=> (rank_all[a] < rank_all[b])
              /\ (rank[a] = rank[b]) <=> (rank_all[a] = rank_all[b])
        /\ (\A e \in Exps : is_feasible[e]) =>
              \A e \in Exps : rank[e] = rank_all[e]

C30_Witness ==
    /\ AfterRank
    /\ \E e, f, g \in Exps :
          /\ is_feasible[f] /\ ~is_feasible[e] /\ is_feasible[g]
          /\ total_weighted_score[f] > total_weighted_score[e]
          /\ total_weighted_score[e] > total_weighted_score[g]
          /\ rank[f] = 1 /\ rank_all[f] = 1
          /\ rank[g] = 2 /\ rank_all[g] = 3

\* C22 as stated: the table returned by aggregate_to_experiment_level holds
\* every experiment id at most once, for every combination of aggregation
\* methods, aggregation none on a table with several rows per experiment
\* included.
C22_OneRowPerExperiment ==
    AfterAggregation =>
        \A j, k \in 1..Len(exp_id) : exp_id[j] = exp_id[k] => j = k


AfterLookup == stage = "resolved"

\* the entry has every lookup column with the value of the row
EntryMatches(entry, lookup_columns) ==
    \A j \in 1..Len(lookup_columns) :
        /\ lookup_columns[j] \in DOMAIN entry.items
        /\ ValEq(entry.items[lookup_columns[j]], row.cells[lookup_columns[j]])

\* the value at the end of the path, 0 when a segment is missing
RECURSIVE PathValueOrZero(_, _)
PathValueOrZero(node, path) ==
    IF path = << >> THEN node
    ELSE IF node.kind = "dict" /\ Head(path) \in DOMAIN node.items
    THEN PathValueOrZero(node.items[Head(path)], Tail(path))
    ELSE PyNum(0)

\* C24 as stated: for an attribute file source on the process table,
\* get_variable_value returns the value at the end of the value path of the
\* first entry, in table order, whose keys all equal the lookup-column
\* values of the row; it returns 0 and does not raise when no entry matches
\* and when a segment of the path, first, middle or last, is missing.
C24_FirstMatchWalkedOrZero ==
    (AfterLookup /\ variables["a"].source = "attribute_file") =>
        LET entries == attributes.process.process_attributes
            cols == variables["a"].lookup_columns
            hits == {j \in 1..Len(entries) : EntryMatches(entries[j], cols)}
        IN  result =
              Returned(IF hits = {} THEN PyNum(0)
                       ELSE PathValueOrZero(entries[SetMin(hits)],
                                            variables["a"].value_path))

\* C25: for a quality range source, get_variable_value returns the keyed
\* value of the first range entry, in array order, of the first component
\* named like the row's step whose bounds satisfy quality_min <= quality <=
\* quality_max, so a quality on a shared bound resolves to the earlier
\* range; it returns 0 when no component has the name and when no range
\* contains the quality.
C25_FirstInclusiveRangeOrZero ==
    (AfterLookup /\ variables["a"].source = "quality_range") =>
        LET components == attributes.product.components
            named == {j \in 1..Len(components) :
                        components[j].items["component_name"]
                            = row.cells["step_name"]}
            ranges ==
                components[SetMin(named)]
                    .items["quality_dependent_attributes"]
                    .items["component_value"].items
            quality == row.cells["b"].v
            holds == {j \in 1..Len(ranges) :
                        /\ ranges[j].items["quality_min"].v <= quality
                        /\ quality <= ranges[j].items["quality_max"].v}
        IN  result =
              Returned(IF named = {} THEN PyNum(0)
                       ELSE IF holds = {} THEN PyNum(0)
                       ELSE ranges[SetMin(holds)].items["value"])

\* a quality on the bound shared by two ranges takes the earlier one
C25_Witness ==
    /\ AfterLookup
    /\ variables["a"].source = "quality_range"
    /\ row.cells["step_name"] = Str("comp_A")
    /\ row.cells["b"].v = 5
    /\ attributes.product.components =
          <<Component("comp_A", <<RangeEntry(0, 5, 50),
                                  RangeEntry(5, 10, 100)>>)>>
    /\ result = Returned(PyNum(50))


AfterCalculation == stage = "calculated"

AllValues == values.values \o values.special_values

\* the entity table of a name
TableOf(df_name) == IF df_name = "df_process" THEN df_process ELSE df_product

\* the columns the configuration targets at a table: one per indicator and
\* one per value
TargetedColumns(df_name) ==
    {indicators[j].indicator_id :
        j \in {k \in 1..Len(indicators) :
                 indicators[k].target_dataframe = df_name}}
    \cup {ValueCol(AllValues[j]) :
             j \in {k \in 1..Len(AllValues) :
                      AllValues[k].target_dataframe = df_name}}

\* the table before and after calculate_indicators: same rows, the original
\* columns with their cells, and beside them exactly the targeted columns,
\* with a cell on every row
KeepsRowsAndGainsTargeted(before, after, df_name) ==
    /\ Len(after.rows) = Len(before.rows)
    /\ after.cols = before.cols \cup TargetedColumns(df_name)
    /\ \A k \in 1..Len(after.rows) :
          /\ DOMAIN after.rows[k] = after.cols
          /\ \A c \in before.cols : after.rows[k][c] = before.rows[k][c]

\* C21 as stated: calculate_indicators keeps the rows and the original
\* columns of every entity table and adds exactly one column per indicator
\* or value targeted at the table, with a value on every row.
C21_RowsKeptOneColumnPerDefinition ==
    [][stage' = "calculated" =>
          /\ KeepsRowsAndGainsTargeted(df_process, df_process', "df_process")
          /\ KeepsRowsAndGainsTargeted(df_product, df_product', "df_product")
      ]_vars

\* the positions of the write log that hold values of a category on a table
WritesOf(df_name, category) ==
    {j \in 1..Len(computed) :
        computed[j].df = df_name /\ computed[j].kind = category}

\* C23: after calculate_indicators, on every table every cost_factor column
\* was written before any aggregate column, whatever the order of the
\* definitions in the two lists, and every aggregate holds on every row
\* what its formula gives over the row with the cost_factor columns in it.
C23_CostFactorsBeforeAggregates ==
    AfterCalculation =>
        /\ \A df_name \in {"df_process", "df_product"} :
              \A j \in WritesOf(df_name, CATEGORY_COST_FACTOR) :
                  \A k \in WritesOf(df_name, CATEGORY_AGGREGATE) : j < k
        /\ \A j \in 1..Len(AllValues) :
              AllValues[j].category = CATEGORY_AGGREGATE =>
                  LET v == AllValues[j]
                      table == TableOf(v.target_dataframe)
                  IN  \A k \in 1..Len(table.rows) :
                          table.rows[k][ValueCol(v)] =
                              CalcRow(table.rows[k], v.formula,
                                      v.value_variables)

\* the aggregate VAL02 is listed before the cost factor VAL01 it reads, the
\* other cost factor it reads is a special value, and it holds their sum
C23_Witness ==
    /\ AfterCalculation
    /\ Len(values.values) >= 2
    /\ values.values[1].value_id = "VAL02"
    /\ values.values[2].value_id = "VAL01"
    /\ Len(values.special_values) = 1
    /\ values.special_values[1].value_name = "COSTS_FIX"
    /\ df_process.rows[1]["t"] = NpNum(2)
    /\ df_process.rows[1]["VAL01"] = NpNum(6)
    /\ df_process.rows[1]["VAL02"] = NpNum(8)

\* C29 as stated: after calculate_indicators every configured value, regular
\* or special, of whatever category, has its column on its target table.
C29_EveryValueIsComputed ==
    AfterCalculation =>
        \A j \in 1..Len(AllValues) :
            ValueCol(AllValues[j])
                \in TableOf(AllValues[j].target_dataframe).cols

====
